---- MODULE Spec2Model ----
(***************************************************************************)
(* XML2ASSConverter (yt_dlp/extractor/xml2ass.py): the danmaku-to-ASS      *)
(* converter.  The model follows one converter instance through calls of   *)
(* convert(): read_comments, then one step per sorted comment (lane scan,  *)
(* fallback lane, or positioned comment), then the return.                 *)
(*                                                                         *)
(* Numbers.  Timestamps are whole seconds.  Font sizes, comment heights    *)
(* and comment widths are kept in 25ths of a pixel row, because            *)
(* read_comments scales every size by font_size / 25.0: a value v of the   *)
(* code is the integer 25 * v here, and the code's comparisons, int() and  *)
(* math.ceil() are computed exactly on that representation.                *)
(***************************************************************************)
EXTENDS Integers, Sequences, FiniteSets, TLC

(***************************************************************************)
(* Bounds of the model.                                                    *)
(***************************************************************************)
MaxRecs == 2        \* records per container, specification Spec
MaxLaneRecs == 4    \* records per container, specification SpecLanes
MaxCallRecs == 1    \* records per container, specification SpecCalls
MaxCalls == 2       \* convert() calls on one instance, specification SpecCalls
MaxTime == 2        \* timestamps are 0 .. MaxTime

(***************************************************************************)
(* Constructor configuration (__init__): a small canvas.                   *)
(***************************************************************************)
Width == 4
Height == 5
BottomReserved == 1
FontSize == 25
Alpha == 80             \* alpha in percent
DurationMarquee == 3
DurationStill == 2

BILIPOS == 7            \* stands for the mode tag 'bilipos'

VARIABLES font_size, alpha, rows, pc, xml, user, comments, idx, content,
          result, placements, last, calls

vars == <<font_size, alpha, rows, pc, xml, user, comments, idx, content,
          result, placements, last, calls>>

(***************************************************************************)
(* Python values.                                                          *)
(***************************************************************************)
None == <<>>
Some(c) == <<c>>

\* One field of the p attribute: text that float()/int() accept, or not.
Num(v) == [num |-> TRUE, v |-> v]
NaT == [num |-> FALSE, v |-> 0]

\* math.ceil(x) and int(x) of a value held in 25ths.
Ceil25(x) == -((-x) \div 25)
Int25(x) == IF x >= 0 THEN x \div 25 ELSE -((-x) \div 25)

\* [None] * (height - bottom_reserved + 1) for each of the four modes.
EmptyRows == [m \in 0..3 |-> [r \in 1..(Height - BottomReserved + 1) |-> None]]

(***************************************************************************)
(* Input.  A container is Unparsable (ET.fromstring raises ParseError) or  *)
(* a sequence of <d> elements.  An element has its p attribute (or lacks   *)
(* it) and its text.  A text is described by what the code reads of it:    *)
(* whether it is empty, its number of lines and longest line after the     *)
(* '/n' replacement, and what json.loads and the descriptor conversions    *)
(* of write_bilibili_positioned do with it ("ok": a line is built;         *)
(* "ValueError": caught there; "TypeError": not caught there).             *)
(***************************************************************************)
Unparsable == [wellformed |-> FALSE, d |-> <<>>]
Container(ds) == [wellformed |-> TRUE, d |-> ds]

TxtA == [s |-> "a", lines |-> 1, len |-> 1, json |-> "ValueError"]
TxtAB == [s |-> "a/nbb", lines |-> 2, len |-> 2, json |-> "ValueError"]
TxtDesc == [s |-> "[0,0,1,4,5]", lines |-> 1, len |-> 11, json |-> "ok"]
TxtFive == [s |-> "5", lines |-> 1, len |-> 1, json |-> "TypeError"]
TxtEmpty == [s |-> "", lines |-> 1, len |-> 0, json |-> "ValueError"]

White == 16777215
Red == 255 * 65536

\* <d p="t,mode,size,color,pool">text</d>
D(t, mode, size, color, text) ==
    [hasp |-> TRUE, p |-> <<Num(t), mode, Num(size), Num(color), Num(0)>>, text |-> text]

(***************************************************************************)
(* read_comments                                                           *)
(***************************************************************************)
comment_types == {"1", "4", "5", "6", "7", "8"}

\* {'1': 0, '4': 2, '5': 1, '6': 3}[p[1]]
ModeOf(code) == CASE code = "1" -> 0 [] code = "4" -> 2 [] code = "5" -> 1 [] OTHER -> 3

\* The body of the for loop for element number i: the tuple appended, if any.
\* A comment tuple c is a record: t = c[0], pool = c[1], i = c[2],
\* text = c[3], mode = c[4], color = c[5], size = c[6], h = c[7], w = c[8].
ParseRecord(i, d, fs) ==
    IF ~d.hasp THEN None                                        \* KeyError
    ELSE IF Len(d.p) < 5 \/ d.p[2] \notin comment_types \/ d.text.s = "" THEN None
    ELSE IF d.p[2] \in {"1", "4", "5", "6"}
         THEN IF ~(d.p[1].num /\ d.p[3].num /\ d.p[4].num /\ d.p[5].num)
              THEN None                                         \* ValueError
              ELSE Some([t |-> d.p[1].v, pool |-> d.p[5].v, i |-> i, text |-> d.text,
                         mode |-> ModeOf(d.p[2]), color |-> d.p[4].v,
                         size |-> d.p[3].v * fs,
                         h |-> d.text.lines * d.p[3].v * fs,
                         w |-> d.text.len * d.p[3].v * fs])
    ELSE IF d.p[2] = "7"
         THEN IF ~(d.p[1].num /\ d.p[3].num /\ d.p[4].num /\ d.p[5].num)
              THEN None                                         \* ValueError
              ELSE Some([t |-> d.p[1].v, pool |-> d.p[5].v, i |-> i, text |-> d.text,
                         mode |-> BILIPOS, color |-> d.p[4].v,
                         size |-> 25 * d.p[3].v, h |-> 0, w |-> 0])
    ELSE None                                                   \* '8': no branch

\* comments.sort(key=lambda ele: ele[0]): a stable sort, as insertion from the left.
RECURSIVE InsertUnstable(_, _)
InsertUnstable(c, s) ==
    IF s = <<>> THEN <<c>>
    ELSE IF c.t <= s[Len(s)].t THEN Append(InsertUnstable(c, SubSeq(s, 1, Len(s) - 1)), s[Len(s)])
    ELSE Append(s, c)

RECURSIVE InsertByTime(_, _)
InsertByTime(c, s) ==
    IF s = <<>> THEN <<c>>
    ELSE IF c.t < s[Len(s)].t THEN Append(InsertByTime(c, SubSeq(s, 1, Len(s) - 1)), s[Len(s)])
    ELSE Append(s, c)

RECURSIVE SortByTime(_)
SortByTime(s) ==
    IF s = <<>> THEN <<>>
    ELSE InsertByTime(s[Len(s)], SortByTime(SubSeq(s, 1, Len(s) - 1)))

\* The list appended to by the loop over root.findall('d'), i from 0.
RECURSIVE Appended(_, _, _)
Appended(ds, n, fs) ==
    IF n = 0 THEN <<>>
    ELSE Appended(ds, n - 1, fs) \o ParseRecord(n - 1, ds[n], fs)

read_comments(xml_data, fs) ==
    IF ~xml_data.wellformed THEN <<>>                           \* ParseError
    ELSE SortByTime(Appended(xml_data.d, Len(xml_data.d), fs))

(***************************************************************************)
(* Lane allocator: test_free_rows, find_alternative_row, mark_comment_row. *)
(* rws is self.rows; lane number r of the code is index r + 1 here.        *)
(***************************************************************************)
Lane(rws, c, row) == rws[c.mode][row + 1]

\* StillBlocks with the comparison made inclusive (>= for >).
StillBlocksInclusive(o, c) == o.t + DurationStill >= c.t

\* Line 239: the occupant o of a Top/Bottom lane is still displayed at c's start.
StillBlocks(o, c) == o.t + DurationStill > c.t

\* Line 245-247: o[0] > threshold_time, with
\*   threshold_time = c[0] - duration_marquee * (1 - width / (c[8] + width)),
\* and c[0] - duration_marquee when c[8] + width is zero.  With
\* den = 25 * (c[8] + width): 1 - width / (c[8] + width) = c.w / den.
AfterThreshold(o, c) ==
    LET den == c.w + 25 * Width IN
    IF den = 0 THEN o.t > c.t - DurationMarquee
    ELSE IF den > 0 THEN o.t * den > c.t * den - DurationMarquee * c.w
    ELSE o.t * den < c.t * den - DurationMarquee * c.w

\* TrailingEdgeAfter without the occupant's crossing time: o[0] > c[0].
TrailingEdgeAtStart(o, c) == o.t > c.t

\* Line 252, second operand:
\*   o[0] + o[8] * duration_marquee / (o[8] + width) > c[0];
\* ZeroDivisionError (o[8] + width zero) is passed over: not blocking.
TrailingEdgeAfter(o, c) ==
    LET den == o.w + 25 * Width IN
    IF den = 0 THEN FALSE
    ELSE IF den > 0 THEN o.t * den + o.w * DurationMarquee > c.t * den
    ELSE o.t * den + o.w * DurationMarquee < c.t * den

MarqueeBlocks(o, c) == AfterThreshold(o, c) \/ TrailingEdgeAfter(o, c)

\* The two while loops of test_free_rows: (row, res, target_row) is the loop state.
RECURSIVE FreeRowsLoop(_, _, _, _, _)
FreeRowsLoop(rws, c, row, res, target_row) ==
    IF row < Height - BottomReserved /\ 25 * res < c.h
    THEN LET cell == Lane(rws, c, row) IN
         IF target_row # cell
         THEN IF cell # None /\ (IF c.mode \in {1, 2} THEN StillBlocks(cell[1], c)
                                                       ELSE MarqueeBlocks(cell[1], c))
              THEN res                                          \* break
              ELSE FreeRowsLoop(rws, c, row + 1, res + 1, cell)
         ELSE FreeRowsLoop(rws, c, row + 1, res + 1, target_row)
    ELSE res

test_free_rows(rws, c, row) == FreeRowsLoop(rws, c, row, 0, None)

\* AlternativeLoop with the comparison made inclusive (<= for <): the last
\* of the equally old occupants wins.
RECURSIVE AlternativeLoopLastWins(_, _, _, _, _)
AlternativeLoopLastWins(rws, c, row, n, res) ==
    IF row >= n THEN res
    ELSE IF Lane(rws, c, row) = None THEN row
    ELSE IF Lane(rws, c, row)[1].t <= Lane(rws, c, res)[1].t
         THEN AlternativeLoopLastWins(rws, c, row + 1, n, row)
         ELSE AlternativeLoopLastWins(rws, c, row + 1, n, res)

\* for row in range(...): the loop of find_alternative_row, res the best so far.
RECURSIVE AlternativeLoop(_, _, _, _, _)
AlternativeLoop(rws, c, row, n, res) ==
    IF row >= n THEN res
    ELSE IF Lane(rws, c, row) = None THEN row
    ELSE IF Lane(rws, c, row)[1].t < Lane(rws, c, res)[1].t
         THEN AlternativeLoop(rws, c, row + 1, n, row)
         ELSE AlternativeLoop(rws, c, row + 1, n, res)

find_alternative_row(rws, c) ==
    AlternativeLoop(rws, c, 0, Height - BottomReserved - Ceil25(c.h), 0)

\* self.rows[c[4]][i] = c for i in range(row, row + ceil(c[7])), IndexError suppressed.
mark_comment_row(rws, c, row) ==
    [rws EXCEPT ![c.mode] =
        [k \in DOMAIN rws[c.mode] |->
            IF row <= k - 1 /\ k - 1 < row + Ceil25(c.h) THEN Some(c) ELSE rws[c.mode][k]]]

convert_type2(row) == Height - BottomReserved - row

\* Lines 343-349: for row in range(int(rowmax)), the first row with
\* freerows >= c[7]; -1 when the loop runs out (the for's else branch).
RECURSIVE ScanLoop(_, _, _, _)
ScanLoop(rws, c, row, n) ==
    IF row >= n THEN -1
    ELSE IF 25 * test_free_rows(rws, c, row) >= c.h THEN row
    ELSE ScanLoop(rws, c, row + 1, n)

\* ScanRows with the last row included: range(int(rowmax) + 1).
ScanRowsInclusive(rws, c) ==
    ScanLoop(rws, c, 0, Int25(25 * (Height - BottomReserved) - c.h) + 1)

ScanRows(rws, c) == ScanLoop(rws, c, 0, Int25(25 * (Height - BottomReserved) - c.h))

(***************************************************************************)
(* Event renderer.  An output line is the record of the values its text    *)
(* is formatted from.                                                      *)
(***************************************************************************)
\* write_ass_head: the Style line carries self.font_size and self.alpha.
write_ass_head(fs, al) == [font_size |-> fs, alpha |-> al]

\* write_comment(c, row): the Dialogue line of a lane-placed comment.
write_comment(c, row, fs) ==
    [layer |-> 2,
     start |-> c.t,
     end |-> c.t + (IF c.mode \in {1, 2} THEN DurationStill ELSE DurationMarquee),
     style |-> CASE c.mode = 1 -> "an8 pos" [] c.mode = 2 -> "an2 pos"
                 [] c.mode = 3 -> "move right" [] OTHER -> "move left",
     y |-> IF c.mode = 2 THEN convert_type2(row) ELSE row,
     x |-> IF c.mode \in {1, 2} THEN 0 ELSE Ceil25(c.w),
     fs |-> IF -25 < c.size - 25 * fs /\ c.size - 25 * fs < 25 THEN 0 ELSE c.size,
     color |-> IF c.color = White THEN -1 ELSE c.color,
     text |-> c.text.s]

bili_player_size == <<672, 438>>

\* get_zoom_factor: line 76 assigns Cached_Size on the bound method
\* self.get_zoom_factor.  A bound method takes no attributes, so the
\* getattr of line 72 always yields None and the assignment always raises
\* AttributeError, outside the try of lines 71-75.
get_zoom_factor(source_size) == [exc |-> "AttributeError", value |-> <<>>]

\* write_bilibili_positioned(c): get_zoom_factor is called before the try;
\* inside it IndexError and ValueError give '', any other exception leaves.
write_bilibili_positioned(c) ==
    LET zoom_factor == get_zoom_factor(bili_player_size) IN
    IF zoom_factor.exc # "" THEN [exc |-> zoom_factor.exc, line |-> None]
    ELSE IF c.text.json = "ok"
         THEN [exc |-> "", line |-> Some([layer |-> -1, start |-> c.t, end |-> c.t,
                                          style |-> "positioned", y |-> 0, x |-> 0,
                                          fs |-> c.size, color |-> c.color,
                                          text |-> c.text.s])]
    ELSE IF c.text.json = "ValueError" THEN [exc |-> "", line |-> None]
    ELSE [exc |-> c.text.json, line |-> None]

(***************************************************************************)
(* convert                                                                 *)
(***************************************************************************)
\* The arguments of a call; 0 and "" stand for None (any falsy value).
User(fs, al, pos, col) == [font_size |-> fs, alpha |-> al, position |-> pos, color |-> col]

\* Lines 335-342: the forced mode and the forced color of a lane comment.
Override(c, u) ==
    LET m == CASE u.position = "top" -> 1 [] u.position = "bottom" -> 2
               [] u.position = "scroll" -> 0 [] OTHER -> c.mode
    IN [c EXCEPT !.mode = m, !.color = IF u.color # 0 THEN u.color ELSE c.color]

\* Lines 343-353: the row of a lane comment, by the scan or by the for's else.
Placement(rws, c) ==
    LET row == ScanRows(rws, c) IN
    IF row >= 0 THEN [row |-> row, via |-> "scan"]
    ELSE [row |-> find_alternative_row(rws, c), via |-> "fallback"]

ResNone == [kind |-> "None", head |-> <<>>, events |-> <<>>]
ResRaise(e) == [kind |-> e, head |-> <<>>, events |-> <<>>]
ResAss(head, events) == [kind |-> "ass", head |-> Some(head), events |-> events]
Pending == [kind |-> "pending", head |-> <<>>, events |-> <<>>]
NoPlacement == [via |-> "none"]

Init ==
    /\ font_size = FontSize
    /\ alpha = Alpha
    /\ rows = EmptyRows
    /\ pc = "idle"
    /\ xml = Unparsable
    /\ user = User(0, 0, "", 0)
    /\ comments = <<>>
    /\ idx = 1
    /\ content = <<>>
    /\ result = Pending
    /\ placements = <<>>
    /\ last = NoPlacement
    /\ calls = 0

\* Lines 322-332: the call, up to the loop; lines 329-330 are the early return.
Call(xml_data, u, earlyReturn) ==
    /\ pc \in {"idle", "returned", "raised"}
    /\ LET actual_font_size == IF u.font_size # 0 THEN u.font_size ELSE font_size
           actual_alpha == IF u.alpha # 0 THEN u.alpha ELSE alpha
           cs == read_comments(xml_data, actual_font_size)
       IN /\ font_size' = actual_font_size
          /\ alpha' = actual_alpha
          /\ rows' = EmptyRows
          /\ comments' = cs
          /\ pc' = IF earlyReturn /\ cs = <<>> THEN "returned" ELSE "loop"
          /\ result' = IF earlyReturn /\ cs = <<>> THEN ResNone ELSE Pending
    /\ xml' = xml_data
    /\ user' = u
    /\ idx' = 1
    /\ content' = <<>>
    /\ placements' = <<>>
    /\ last' = NoPlacement
    /\ calls' = calls + 1

\* convert without the early return of lines 329-330.
ConvertWithoutEarlyReturn(xml_data, u) == Call(xml_data, u, FALSE)

\* convert(xml_data, user_font_size, user_alpha, user_position, user_color).
Convert(xml_data, u) == Call(xml_data, u, TRUE)

\* Lines 347-348 and 352-353: stamp the row and append the line.
Stamp(c, p) ==
    /\ rows' = mark_comment_row(rows, c, p.row)
    /\ content' = Append(content, write_comment(c, p.row, font_size))
    /\ placements' = Append(placements, [c |-> c, row |-> p.row, via |-> p.via])
    /\ last' = [via |-> p.via, c |-> c, row |-> p.row, before |-> rows[c.mode]]
    /\ idx' = idx + 1
    /\ UNCHANGED <<font_size, alpha, pc, xml, user, comments, result, calls>>

\* Lines 344-349: one pass of the loop for a lane comment, a row of the scan is free.
PlaceFreeRow ==
    /\ pc = "loop"
    /\ idx <= Len(comments)
    /\ comments[idx].mode # BILIPOS
    /\ LET c == Override(comments[idx], user)
           p == Placement(rows, c)
       IN p.via = "scan" /\ Stamp(c, p)

\* Lines 350-353: one pass of the loop for a lane comment, no row of the scan is free.
PlaceAlternativeRow ==
    /\ pc = "loop"
    /\ idx <= Len(comments)
    /\ comments[idx].mode # BILIPOS
    /\ LET c == Override(comments[idx], user)
           p == Placement(rows, c)
       IN p.via = "fallback" /\ Stamp(c, p)

\* Lines 354-359: one pass of the loop for a positioned comment.
WritePositioned ==
    /\ pc = "loop"
    /\ idx <= Len(comments)
    /\ comments[idx].mode = BILIPOS
    /\ LET c == [comments[idx] EXCEPT !.color = IF user.color # 0 THEN user.color ELSE @]
           ass_line == write_bilibili_positioned(c)
       IN IF ass_line.exc # ""
          THEN /\ pc' = "raised"
               /\ result' = ResRaise(ass_line.exc)
               /\ UNCHANGED <<content, idx>>
          ELSE /\ content' = content \o ass_line.line
               /\ idx' = idx + 1
               /\ UNCHANGED <<pc, result>>
    /\ UNCHANGED <<font_size, alpha, rows, xml, user, comments, placements, last, calls>>

\* Line 361.
Return ==
    /\ pc = "loop"
    /\ idx > Len(comments)
    /\ pc' = "returned"
    /\ result' = ResAss(write_ass_head(font_size, alpha), content)
    /\ UNCHANGED <<font_size, alpha, rows, xml, user, comments, idx, content,
                   placements, last, calls>>

(***************************************************************************)
(* Inputs of the three specifications.                                     *)
(***************************************************************************)
\* Sequences of at most n elements of S.
RECURSIVE SeqsUpTo(_, _)
SeqsUpTo(S, n) ==
    IF n = 0 THEN {<<>>}
    ELSE LET shorter == SeqsUpTo(S, n - 1)
         IN shorter \cup {Append(s, d) : s \in {q \in shorter : Len(q) = n - 1}, d \in S}

\* Spec: well-formed and malformed elements of every kind.
Elements ==
    {D(t, m, 1, White, TxtA) : t \in {0, 1}, m \in {"1", "5"}}
    \cup {D(0, "5", 5, Red, TxtA),
          D(0, "7", 1, Red, TxtDesc), D(0, "7", 1, White, TxtA), D(0, "7", 1, White, TxtFive),
          D(0, "8", 1, White, TxtA), D(0, "9", 1, White, TxtA),
          D(0, "1", 1, White, TxtEmpty),
          [D(0, "1", 1, White, TxtA) EXCEPT !.p = <<Num(0), "1", Num(1), Num(0)>>],
          [D(0, "1", 1, White, TxtA) EXCEPT !.p[1] = NaT],
          [D(0, "1", 1, White, TxtA) EXCEPT !.hasp = FALSE]}

Containers == {Unparsable} \cup {Container(ds) : ds \in SeqsUpTo(Elements, MaxRecs)}

Users == {User(fs, al, pos, col) : fs \in {0, 40}, al \in {0, 50},
                                    pos \in {"", "top", "bottom", "scroll"}, col \in {0, Red}}

Next ==
    \/ calls = 0 /\ \E x \in Containers, u \in Users : Convert(x, u)
    \/ PlaceFreeRow
    \/ PlaceAlternativeRow
    \/ WritePositioned
    \/ Return

Spec == Init /\ [][Next]_vars

(***************************************************************************)
(* convert as a function of the instance's font_size and alpha and of the  *)
(* call: what a call returns (or raises) on an instance in that state.     *)
(***************************************************************************)
RECURSIVE ConvertLoop(_, _, _, _, _, _)
ConvertLoop(cs, k, rws, out, u, fs) ==
    IF k > Len(cs) THEN [exc |-> "", events |-> out]
    ELSE IF cs[k].mode # BILIPOS
         THEN LET c == Override(cs[k], u)
                  p == Placement(rws, c)
              IN ConvertLoop(cs, k + 1, mark_comment_row(rws, c, p.row),
                             Append(out, write_comment(c, p.row, fs)), u, fs)
         ELSE LET c == [cs[k] EXCEPT !.color = IF u.color # 0 THEN u.color ELSE @]
                  ass_line == write_bilibili_positioned(c)
              IN IF ass_line.exc # "" THEN [exc |-> ass_line.exc, events |-> out]
                 ELSE ConvertLoop(cs, k + 1, rws, out \o ass_line.line, u, fs)

ConvertResult(fs0, al0, xml_data, u) ==
    LET actual_font_size == IF u.font_size # 0 THEN u.font_size ELSE fs0
        actual_alpha == IF u.alpha # 0 THEN u.alpha ELSE al0
        cs == read_comments(xml_data, actual_font_size)
        r == ConvertLoop(cs, 1, EmptyRows, <<>>, u, actual_font_size)
    IN IF cs = <<>> THEN ResNone
       ELSE IF r.exc # "" THEN ResRaise(r.exc)
       ELSE ResAss(write_ass_head(actual_font_size, actual_alpha), r.events)

\* A call has ended: convert returned or an exception left it.
Ended == pc \in {"returned", "raised"}

(***************************************************************************)
(* The claims' vocabulary, from their wording.                             *)
(***************************************************************************)
\* A record passes the parser's checks: the required fields are there, the
\* mode code is one the parser turns into a comment, the numeric fields
\* parse and the text is not empty.
PassesChecks(d) ==
    /\ d.hasp
    /\ Len(d.p) >= 5
    /\ d.p[2] \in {"1", "4", "5", "6", "7"}
    /\ \A k \in {1, 3, 4, 5} : d.p[k].num
    /\ d.text.s # ""

IsPositioned(d) == d.hasp /\ Len(d.p) >= 2 /\ d.p[2] = "7"

\* Well-formed: passes the checks and, when positioned, its descriptor parses.
WellFormed(d) == PassesChecks(d) /\ (IsPositioned(d) => d.text.json = "ok")

Count(P(_)) == Cardinality({k \in 1..Len(xml.d) : P(xml.d[k])})

\* C1: when a call of convert has ended, the number of events it has
\* emitted equals the number of well-formed records of the container (a
\* call that raises has emitted none).
C1_OneEventPerWellFormedRecord ==
    Ended => Len(result.events) = Count(WellFormed)

\* C2: the parsed list holds exactly the records that pass the checks, each
\* with its own timestamp and text, and a call on a container of two
\* records, one well-formed and one that fails the checks, ends with
\* exactly one event.
C2_MalformedDroppedBatchContinues ==
    /\ pc # "idle" =>
          /\ {c.i : c \in {comments[k] : k \in 1..Len(comments)}}
                = {k - 1 : k \in {j \in 1..Len(xml.d) : PassesChecks(xml.d[j])}}
          /\ \A k \in 1..Len(comments) :
                /\ comments[k].t = xml.d[comments[k].i + 1].p[1].v
                /\ comments[k].text = xml.d[comments[k].i + 1].text
    /\ (Ended /\ Len(xml.d) = 2 /\ Count(PassesChecks) = 1 /\ Count(WellFormed) = 1) =>
          pc = "returned" /\ Len(result.events) = 1

\* A positioned record that reaches convert and whose descriptor does not parse.
BadDescriptor(d) == PassesChecks(d) /\ IsPositioned(d) /\ d.text.json # "ok"

\* C3: a call whose container holds a positioned record with an unparsable
\* descriptor (and no other positioned record) returns, and its events are
\* those of the other records.
C3_UnparsablePositionedSkipped ==
    (Ended /\ Count(BadDescriptor) > 0 /\ Count(BadDescriptor) = Count(IsPositioned)) =>
        pc = "returned" /\ Len(result.events) = Count(WellFormed)

\* C4 (as claimed): the result for an unparsable container differs from the
\* result of the same call on a well-formed container without comments.
C4_UnparsableDistinguishable ==
    (pc = "returned" /\ ~xml.wellformed) =>
        result # ConvertResult(FontSize, Alpha, Container(<<>>), user)

\* C4 (amended): for an unparsable container convert returns None, and for
\* a well-formed container without comments it returns None as well.
C4_UnparsableAndEmptyBothNone ==
    (pc = "returned" /\ (~xml.wellformed \/ xml.d = <<>>)) => result = ResNone

C4_Witness == pc = "returned" /\ ~xml.wellformed /\ result = ResNone

\* The comments of the parsed list that are placed on lanes, up to number n.
LaneComments(n) == SelectSeq(SubSeq(comments, 1, n), LAMBDA c : c.mode # BILIPOS)

\* C5: the parsed list is a permutation of the accepted records, ascending
\* by timestamp, equal timestamps in input order; lanes are allocated and
\* events emitted in that order.
C5_StableSortedAndProcessedInOrder ==
    pc # "idle" =>
        /\ \A a, b \in 1..Len(comments) :
              a < b => \/ comments[a].t < comments[b].t
                       \/ comments[a].t = comments[b].t /\ comments[a].i < comments[b].i
        /\ \A j \in 1..Len(xml.d) :
              ParseRecord(j - 1, xml.d[j], font_size) # None =>
                 \E k \in 1..Len(comments) : <<comments[k]>> = ParseRecord(j - 1, xml.d[j], font_size)
        /\ \A k \in 1..Len(comments) :
              <<comments[k]>> = ParseRecord(comments[k].i, xml.d[comments[k].i + 1], font_size)
        /\ Len(placements) = Len(LaneComments(idx - 1))
        /\ Len(content) = Len(placements)
        /\ \A k \in 1..Len(placements) :
              /\ placements[k].c.i = LaneComments(idx - 1)[k].i
              /\ content[k].start = LaneComments(idx - 1)[k].t

C5_Witness ==
    /\ pc = "returned"
    /\ Len(xml.d) = 2 /\ Len(placements) = 2
    /\ xml.d[1].p[1].v > xml.d[2].p[1].v
    /\ placements[1].c.i = 1 /\ placements[2].c.i = 0

(***************************************************************************)
(* SpecLanes: one call of convert on lane comments of one mode (Scroll or  *)
(* Top, each mode has its own track) of one or two lines, given in         *)
(* timestamp order, at the configured font size and at a forced one that   *)
(* makes the heights fractional.                                           *)
(***************************************************************************)
LaneElements(m) == {D(t, m, 1, White, txt) : t \in 0..MaxTime, txt \in {TxtA, TxtAB}}

\* Sequences of n elements of S with ascending timestamps.
RECURSIVE OrderedSeqs(_, _)
OrderedSeqs(S, n) ==
    IF n = 0 THEN {<<>>}
    ELSE UNION {{Append(s, d) : d \in {e \in S : n = 1 \/ s[n - 1].p[1].v <= e.p[1].v}} :
                s \in OrderedSeqs(S, n - 1)}

LaneContainers ==
    {Container(ds) : ds \in UNION {OrderedSeqs(LaneElements(m), n) :
                                      m \in {"1", "5"}, n \in 0..MaxLaneRecs}}

LaneUsers == {User(fs, 0, "", 0) : fs \in {0, 40}}

NextLanes ==
    \/ calls = 0 /\ \E x \in LaneContainers, u \in LaneUsers : Convert(x, u)
    \/ PlaceFreeRow
    \/ PlaceAlternativeRow
    \/ Return

SpecLanes == Init /\ [][NextLanes]_vars

(***************************************************************************)
(* The lane claims' vocabulary, from their wording.                        *)
(***************************************************************************)
Rowmax == Height - BottomReserved

\* The occupant o of a Top/Bottom lane is still displayed at c's start.
StillDisplayed(o, c) == c.t < o.t + DurationStill

\* C7's two conditions on an occupant o of a scrolling lane, for positive
\* widths, each multiplied by its denominator:
\*   o.t + duration_marquee * o.w / (o.w + width) > c.t
\*   o.t > c.t - duration_marquee * (1 - width / (c.w + width))
ScrollBlocks(o, c) ==
    \/ (o.t - c.t) * (o.w + 25 * Width) + DurationMarquee * o.w > 0
    \/ (c.t - o.t) * (c.w + 25 * Width) < DurationMarquee * c.w

BlocksLane(o, c) == IF c.mode \in {1, 2} THEN StillDisplayed(o, c) ELSE ScrollBlocks(o, c)

\* The lanes of the run of ceil(c.height) lanes that starts at row r.
Run(c, r) == r..(r + Ceil25(c.h) - 1)

\* Lane k of track is free for c: empty, or its occupant does not block c.
FreeLane(track, c, k) ==
    /\ k + 1 \in DOMAIN track
    /\ track[k + 1] = None \/ ~BlocksLane(track[k + 1][1], c)

\* The run that starts at r lies within [0, bound) and is fully free for c.
FreeRunWithin(track, c, r, bound) ==
    /\ r >= 0
    /\ r + Ceil25(c.h) <= bound
    /\ \A k \in Run(c, r) : FreeLane(track, c, k)

\* The two comments of a call on two Top comments of one font size, placed.
TwoTopPlaced ==
    /\ Len(comments) = 2
    /\ Len(placements) = 2
    /\ placements[1].c.mode = 1 /\ placements[2].c.mode = 1
    /\ placements[1].c.size = placements[2].c.size

WindowsOverlap(a, b) == b.t < a.t + DurationStill

RoomForBoth(a, b) ==
    /\ a.h > 0 /\ b.h > 0
    /\ Ceil25(a.h) + Ceil25(b.h) < Rowmax

Stamped == {k \in Run(last.c, last.row) : k + 1 \in DOMAIN last.before}

LastIsScroll == last.via # "none" /\ last.c.mode \in {0, 3}

\* C7 (as claimed): a scrolling comment is never stamped onto a lane whose
\* occupant at that moment blocks it.
C7_NeverOnBlockingLane ==
    LastIsScroll =>
        \A k \in Stamped : last.before[k + 1] = None \/ ~ScrollBlocks(last.before[k + 1][1], last.c)

\* C7 (amended): a scrolling comment placed by the scan is never stamped
\* onto a lane whose occupant at that moment blocks it.
C7_ScanNeverOnBlockingLane ==
    (LastIsScroll /\ last.via = "scan") =>
        \A k \in Stamped : last.before[k + 1] = None \/ ~ScrollBlocks(last.before[k + 1][1], last.c)

\* A scrolling comment placed by the scan onto a lane another comment has left.
C7_Witness ==
    /\ LastIsScroll /\ last.via = "scan"
    /\ \E k \in Stamped : last.before[k + 1] # None

\* C9 with the scan bound as a parameter: the row chosen by the scan is the
\* smallest row whose run lies in [0, bound) and is fully free, every lane
\* of the run is stamped, and the fallback is used only when there is no
\* such row.
FirstFreeRowWithin(bound) ==
    /\ last.via = "scan" =>
          /\ FreeRunWithin(last.before, last.c, last.row, bound)
          /\ \A r \in 0..(last.row - 1) : ~FreeRunWithin(last.before, last.c, r, bound)
          /\ \A k \in Run(last.c, last.row) : rows[last.c.mode][k + 1] = Some(last.c)
    /\ last.via = "fallback" =>
          \A r \in 0..Rowmax : ~FreeRunWithin(last.before, last.c, r, bound)

OccupantTime(k) == last.before[k + 1][1].t

\* C10 with the rows at which the comment fits as a parameter: the row of a
\* fallback placement has the oldest occupant among the occupied rows of
\* fit, the lowest such row among equals.
FallbackOldestFirstAmong(fit) ==
    (last.via = "fallback" /\ fit # {}) =>
        /\ last.row \in fit
        /\ \A r \in fit :
              (last.before[r + 1] # None /\ last.before[last.row + 1] # None) =>
                 /\ OccupantTime(last.row) <= OccupantTime(r)
                 /\ OccupantTime(r) = OccupantTime(last.row) => last.row <= r

\* C10 (as claimed): the rows at which the comment physically fits are
\* those whose run lies within [0, canvas_height - bottom_reserved).
C10_FallbackOldestFirst ==
    last.via = "fallback" => FallbackOldestFirstAmong(0..(Rowmax - Ceil25(last.c.h)))

\* C10 (amended): the rows considered are those the scan tries, whose run
\* lies within [0, canvas_height - bottom_reserved - 1); each of them is
\* occupied when the fallback is used.
C10_FallbackOldestFirstAmongTried ==
    last.via = "fallback" =>
        /\ FallbackOldestFirstAmong(0..(Rowmax - Ceil25(last.c.h) - 1))
        /\ \A r \in 0..(Rowmax - Ceil25(last.c.h) - 1) : last.before[r + 1] # None

\* A fallback placement on a row other than 0, its occupant older than row 0's.
C10_Witness ==
    /\ last.via = "fallback" /\ last.row > 0
    /\ OccupantTime(last.row) < OccupantTime(0)

\* A fallback placement among rows whose occupants are equally old.
C10_TieWitness ==
    /\ last.via = "fallback" /\ last.row = 0
    /\ \E r \in 1..(Rowmax - Ceil25(last.c.h) - 1) : OccupantTime(r) = OccupantTime(0)

(***************************************************************************)
(* SpecCalls: several calls of convert on one instance, with every         *)
(* combination of the optional arguments.                                  *)
(***************************************************************************)
CallElements ==
    {D(0, "1", 1, White, TxtA), D(0, "5", 5, Red, TxtA),
     D(0, "7", 1, White, TxtDesc), D(0, "1", 1, White, TxtEmpty)}

CallContainers == {Unparsable} \cup {Container(ds) : ds \in SeqsUpTo(CallElements, MaxCallRecs)}

NextCalls ==
    \/ calls < MaxCalls /\ \E x \in CallContainers, u \in Users : Convert(x, u)
    \/ PlaceFreeRow
    \/ PlaceAlternativeRow
    \/ WritePositioned
    \/ Return

SpecCalls == Init /\ [][NextCalls]_vars

\* C8: a call that has ended on this instance has ended as the same call
\* ends on a fresh instance of the same configuration.
C8_NoCrossRunState ==
    Ended => result = ConvertResult(FontSize, Alpha, xml, user)

====
